---- MODULE Spec2Model ----
(***************************************************************************)
(* Model of pyflp.project.Project (src/pyflp/project.py).                  *)
(*                                                                         *)
(* A project is a tuple of events (id, value) plus the header keywords.    *)
(* Events are never added, removed or reordered by Project; a property     *)
(* setter only replaces the value of the first event that carries the      *)
(* property's id.  Strings are sequences of character codes, so that the   *)
(* str()/int()/split()/join() conversions and the licensee cipher are      *)
(* computed and not assumed.  A tempo given by the caller is an exact      *)
(* decimal counted in 1/10000 BPM.                                         *)
(*                                                                         *)
(* Every call records its name, argument, raised exception ("none" when    *)
(* it returns) and return value (<<>> for no value / None, <<x>> for x)    *)
(* in `last`.                                                              *)
(***************************************************************************)
EXTENDS Integers, Sequences, FiniteSets, TLC

VARIABLES events, ppq, last

vars == <<events, ppq, last>>

(***************************************************************************)
(* Bounds of the explored inputs.                                          *)
(***************************************************************************)
MaxNameLen == 2
MaxStoredLen == 2
MaxEvents == 3
MaxEnums == 2

(***************************************************************************)
(* Generic helpers.                                                        *)
(***************************************************************************)
SeqsUpTo(S, n) == UNION {[1..k -> S] : k \in 0..n}

Record(op, arg, err, ret) == [op |-> op, arg |-> arg, err |-> err, ret |-> ret]

Ev(id, value) == [id |-> id, value |-> value]

\* str.isalnum() of a one-character ASCII string: chr(c).isalnum()
IsAsciiAlnum(c) == (c >= 48 /\ c <= 57) \/ (c >= 65 /\ c <= 90) \/ (c >= 97 /\ c <= 122)

(***************************************************************************)
(* MultiEventModel._events: the events grouped by id, in tuple order.      *)
(* `id in self._events` and `self._events[id][0]`.                         *)
(***************************************************************************)
Has(evs, id) == \E i \in 1..Len(evs) : evs[i].id = id

First(evs, id) == CHOOSE i \in 1..Len(evs) : evs[i].id = id /\ \A j \in 1..(i - 1) : evs[j].id # id

\* self._events[id][0].value = v
SetValue(evs, id, v) == [evs EXCEPT ![First(evs, id)].value = v]

ValueOf(evs, id) == evs[First(evs, id)].value

(***************************************************************************)
(* Project.licensee                                                        *)
(***************************************************************************)
\* str(c).isalnum() for an int c: the decimal text of c is all digits
\* unless it starts with a minus sign.
StrOfIntIsAlnum(c) == c >= 0

\* One step of the getter's loop; idx is 0-based.  The result is the list
\* of codes appended for this character (none or one).
DecodeChar(char, idx) ==
    LET c1 == char - 26 + idx
        c2 == char + 49 + idx
    IN  IF StrOfIntIsAlnum(c1) THEN <<c1>>
        ELSE IF StrOfIntIsAlnum(c2) THEN <<c2>>
        ELSE <<>>

RECURSIVE DecodeFrom(_, _)
DecodeFrom(s, i) ==
    IF i > Len(s) THEN <<>> ELSE DecodeChar(s[i], i - 1) \o DecodeFrom(s, i + 1)

\* The getter on a stored string: bytearray.append raises ValueError for a
\* code outside 0..255, bytearray.decode("ascii") raises
\* UnicodeDecodeError for a byte above 127.
decode_licensee(s) ==
    LET out == DecodeFrom(s, 1)
    IN  IF \E k \in 1..Len(out) : out[k] > 255 \/ out[k] < 0
            THEN [err |-> "ValueError", ret |-> <<>>]
        ELSE IF \E k \in 1..Len(out) : out[k] > 127
            THEN [err |-> "UnicodeDecodeError", ret |-> <<>>]
        ELSE [err |-> "none", ret |-> <<out>>]

EncodeChar(char, idx) ==
    LET c1 == char + 26 - idx
        c2 == char - 49 - idx
    IN  IF c1 > 0 /\ c1 <= 127 THEN <<c1>>
        ELSE IF c2 > 0 /\ c2 <= 127 THEN <<c2>>
        ELSE <<>>

RECURSIVE EncodeFrom(_, _)
EncodeFrom(s, i) ==
    IF i > Len(s) THEN <<>> ELSE EncodeChar(s[i], i - 1) \o EncodeFrom(s, i + 1)

encode_licensee(value) == EncodeFrom(value, 1)

GetLicensee ==
    /\ last' = IF Has(events, "Licensee")
                   THEN LET r == decode_licensee(ValueOf(events, "Licensee"))
                        IN  Record("get_licensee", <<>>, r.err, r.ret)
                   ELSE Record("get_licensee", <<>>, "none", <<>>)
    /\ UNCHANGED <<events, ppq>>

SetLicensee(value) ==
    /\ IF Has(events, "Licensee")
           THEN /\ events' = SetValue(events, "Licensee", encode_licensee(value))
                /\ last' = Record("set_licensee", value, "none", <<>>)
           ELSE /\ events' = events
                /\ last' = Record("set_licensee", value, "PropertyCannotBeSet", <<>>)
    /\ UNCHANGED ppq

(***************************************************************************)
(* Project.ppq                                                             *)
(***************************************************************************)
VALID_PPQS == {24, 48, 72, 96, 120, 144, 168, 192, 384, 768, 960}

GetPPQ ==
    /\ last' = Record("get_ppq", <<>>, "none", <<ppq>>)
    /\ UNCHANGED <<events, ppq>>

\* SetPPQ without the membership test.
SetPPQ_Unchecked(value) ==
    /\ ppq' = value
    /\ last' = Record("set_ppq", value, "none", <<>>)
    /\ UNCHANGED events

SetPPQ(value) ==
    /\ IF value \notin VALID_PPQS
           THEN /\ ppq' = ppq
                /\ last' = Record("set_ppq", value, "ExpectedValue", <<>>)
           ELSE /\ ppq' = value
                /\ last' = Record("set_ppq", value, "none", <<>>)
    /\ UNCHANGED events

(***************************************************************************)
(* Project.tempo                                                           *)
(*                                                                         *)
(* A number returned by the getter is the fraction num/den: an int is      *)
(* n/1, `x / 1000` is x/1000.  A value passed to the setter is v/10000.    *)
(***************************************************************************)
Frac(num, den) == [num |-> num, den |-> den]

FracEq(a, b) == a.num * b.den = b.num * a.den

\* int(value * 1000): truncation (value >= 0)
IntOfTimes1000(v) == v \div 10

\* math.floor(value)
Floor(v) == v \div 10000

\* int((value - math.floor(value)) * 1000)
TempoFineOf(v) == IntOfTimes1000(v - Floor(v) * 10000)

tempo_get(evs) ==
    IF Has(evs, "Tempo")
        THEN [err |-> "none", ret |-> <<Frac(ValueOf(evs, "Tempo"), 1000)>>]
    ELSE LET \* tempo = None; if _TempoCoarse present: tempo = its value
             tempo == IF Has(evs, "_TempoCoarse")
                          THEN <<Frac(ValueOf(evs, "_TempoCoarse"), 1)>>
                          ELSE <<>>
         IN  IF Has(evs, "_TempoFine")
                 \* tempo += fine / 1000 raises TypeError when tempo is None
                 THEN IF tempo = <<>>
                          THEN [err |-> "TypeError", ret |-> <<>>]
                          ELSE [err |-> "none",
                                ret |-> <<Frac(tempo[1].num * 1000 + ValueOf(evs, "_TempoFine"),
                                               1000)>>]
                 ELSE [err |-> "none", ret |-> tempo]

GetTempo ==
    /\ last' = LET r == tempo_get(events) IN Record("get_tempo", <<>>, r.err, r.ret)
    /\ UNCHANGED <<events, ppq>>

tempo_set(evs, v) ==
    LET e1 == IF Has(evs, "Tempo") THEN SetValue(evs, "Tempo", IntOfTimes1000(v)) ELSE evs
        e2 == IF Has(e1, "_TempoFine") THEN SetValue(e1, "_TempoFine", TempoFineOf(v)) ELSE e1
        e3 == IF Has(e2, "_TempoCoarse") THEN SetValue(e2, "_TempoCoarse", Floor(v)) ELSE e2
    IN  e3

SetTempo(v) ==
    /\ events' = tempo_set(events, v)
    /\ last' = Record("set_tempo", v, "none", <<>>)
    /\ UNCHANGED ppq

(***************************************************************************)
(* Project.data_path                                                       *)
(***************************************************************************)
GetDataPath ==
    /\ last' = IF Has(events, "DataPath")
                   THEN Record("get_data_path", <<>>, "none", <<ValueOf(events, "DataPath")>>)
                   ELSE Record("get_data_path", <<>>, "none", <<>>)
    /\ UNCHANGED <<events, ppq>>

SetDataPath(value) ==
    /\ IF ~Has(events, "DataPath")
           THEN /\ events' = events
                /\ last' = Record("set_data_path", value, "PropertyCannotBeSet", <<>>)
           ELSE /\ events' = SetValue(events, "DataPath", IF value = <<46>> THEN <<>> ELSE value)
                /\ last' = Record("set_data_path", value, "none", <<>>)
    /\ UNCHANGED ppq

(***************************************************************************)
(* Project.version                                                         *)
(***************************************************************************)
IsDigit(c) == c >= 48 /\ c <= 57

\* str(n) for an int n
RECURSIVE IntToStr(_)
IntToStr(n) ==
    IF n < 0 THEN <<45>> \o IntToStr(0 - n)
    ELSE IF n < 10 THEN <<48 + n>>
    ELSE IntToStr(n \div 10) \o <<48 + (n % 10)>>

RECURSIVE DigitsValue(_)
DigitsValue(s) ==
    IF s = <<>> THEN 0 ELSE DigitsValue(SubSeq(s, 1, Len(s) - 1)) * 10 + (s[Len(s)] - 48)

\* int(s) for a str s: an optional sign followed by decimal digits,
\* anything else raises ValueError.
StrToInt(s) ==
    LET signed == s # <<>> /\ s[1] \in {43, 45}
        digits == IF signed THEN Tail(s) ELSE s
    IN  IF digits = <<>> \/ \E k \in 1..Len(digits) : ~IsDigit(digits[k])
            THEN [ok |-> FALSE, val |-> 0]
            ELSE [ok |-> TRUE,
                  val |-> IF signed /\ s[1] = 45 THEN 0 - DigitsValue(digits) ELSE DigitsValue(digits)]

\* s.split(".")
RECURSIVE Split(_, _)
Split(s, cur) ==
    IF s = <<>> THEN <<cur>>
    ELSE IF Head(s) = 46 THEN <<cur>> \o Split(Tail(s), <<>>)
    ELSE Split(Tail(s), Append(cur, Head(s)))

\* ".".join(map(str, parts))
RECURSIVE Join(_)
Join(parts) ==
    IF parts = <<>> THEN <<>>
    ELSE IF Len(parts) = 1 THEN IntToStr(parts[1])
    ELSE IntToStr(parts[1]) \o <<46>> \o Join(Tail(parts))

\* tuple(map(int, s.split(".")))
ParseParts(s) ==
    LET pieces == Split(s, <<>>)
    IN  IF \E k \in 1..Len(pieces) : ~StrToInt(pieces[k]).ok
            THEN [ok |-> FALSE, parts |-> <<>>]
            ELSE [ok |-> TRUE, parts |-> [k \in 1..Len(pieces) |-> StrToInt(pieces[k]).val]]

\* FLVersion(*parts): major, minor, patch and an optional build.
FLVersion(parts) ==
    IF Len(parts) < 3 \/ Len(parts) > 4
        THEN [err |-> "TypeError", ret |-> <<>>]
        ELSE [err |-> "none", ret |-> <<parts>>]

version_get(evs) ==
    IF ~Has(evs, "FLVersion") THEN [err |-> "LookupError", ret |-> <<>>]
    ELSE LET p == ParseParts(ValueOf(evs, "FLVersion"))
         IN  IF ~p.ok THEN [err |-> "ValueError", ret |-> <<>>] ELSE FLVersion(p.parts)

GetVersion ==
    /\ last' = LET r == version_get(events) IN Record("get_version", <<>>, r.err, r.ret)
    /\ UNCHANGED <<events, ppq>>

\* The setter's argument is [kind |-> "FLVersion", parts |-> <<major, minor,
\* patch>> or <<major, minor, patch, build>>], [kind |-> "str", text |-> s]
\* or [kind |-> "tuple", parts |-> t].
PartsOf(value) ==
    IF value.kind = "str" THEN ParseParts(value.text)
    ELSE [ok |-> TRUE, parts |-> value.parts]

\* version_set that leaves FLBuild alone.
version_set_NoBuild(evs, value) ==
    IF ~Has(evs, "FLVersion") THEN [err |-> "PropertyCannotBeSet", events |-> evs]
    ELSE LET p == PartsOf(value)
         IN  IF ~p.ok THEN [err |-> "ValueError", events |-> evs]
             ELSE IF Len(p.parts) < 3 \/ Len(p.parts) > 4
                 THEN [err |-> "ExpectedValue", events |-> evs]
             ELSE [err |-> "none", events |-> SetValue(evs, "FLVersion", Join(p.parts))]

\* version_set that only refuses fewer than 3 components.
version_set_NoUpperLimit(evs, value) ==
    IF ~Has(evs, "FLVersion") THEN [err |-> "PropertyCannotBeSet", events |-> evs]
    ELSE LET p == PartsOf(value)
         IN  IF ~p.ok THEN [err |-> "ValueError", events |-> evs]
             ELSE IF Len(p.parts) < 3
                 THEN [err |-> "ExpectedValue", events |-> evs]
             ELSE LET e1 == SetValue(evs, "FLVersion", Join(p.parts))
                  IN  [err |-> "none",
                       events |-> IF Len(p.parts) = 4 /\ Has(e1, "FLBuild")
                                      THEN SetValue(e1, "FLBuild", p.parts[4])
                                      ELSE e1]

version_set(evs, value) ==
    IF ~Has(evs, "FLVersion") THEN [err |-> "PropertyCannotBeSet", events |-> evs]
    ELSE LET p == PartsOf(value)
         IN  IF ~p.ok THEN [err |-> "ValueError", events |-> evs]
             ELSE IF Len(p.parts) < 3 \/ Len(p.parts) > 4
                 THEN [err |-> "ExpectedValue", events |-> evs]
             ELSE LET e1 == SetValue(evs, "FLVersion", Join(p.parts))
                  IN  [err |-> "none",
                       events |-> IF Len(p.parts) = 4 /\ Has(e1, "FLBuild")
                                      THEN SetValue(e1, "FLBuild", p.parts[4])
                                      ELSE e1]

SetVersion(value) ==
    /\ LET r == version_set(events, value)
       IN  /\ events' = r.events
           /\ last' = Record("set_version", value, r.err, <<>>)
    /\ UNCHANGED ppq

(***************************************************************************)
(* Event id enumerations used to select a view's events.  An id is the     *)
(* enumeration member's qualified name.                                    *)
(***************************************************************************)
ProjectID == {"LoopActive", "ShowInfo", "_Volume", "PanLaw", "Licensed", "_TempoCoarse",
              "Pitch", "_TempoFine", "CurGroupId", "Tempo", "FLBuild", "Title", "Comments",
              "Url", "_RTFComments", "FLVersion", "Licensee", "DataPath", "Genre",
              "Artists", "Timestamp"}

ChannelID == {"Channel.New"}

DisplayGroupID == {"DisplayGroup.Name"}

PluginID == {"Plugin.Data"}

RackID == {"Rack.Swing"}

MixerID == {"Mixer.Params"}

InsertID == {"Insert.Flags", "Insert.Output"}

SlotID == {"Slot.Index"}

PatternsID == {"Patterns.CurrentlySelected"}

PatternID == {"Pattern.New"}

\* The names bound in the module's namespace by its import statements;
\* evaluating any other name raises NameError.
ImportedNames == {"ArrangementID", "Arrangements", "ArrangementsID", "TimeMarkerID", "TrackID",
                  "ChannelID", "Rack", "RackID",
                  "ExpectedValue", "InvalidValue", "PropertyCannotBeSet", "UnexpectedType",
                  "InsertID", "Mixer", "MixerID", "SlotID",
                  "PatternID", "Patterns", "PatternsID",
                  "PluginID"}

(***************************************************************************)
(* Project._collect_events: the result is a list of references to the      *)
(* project's own event objects; a reference is the object's position in    *)
(* the event tuple.                                                        *)
(***************************************************************************)
\* CollectOne without the break: the event is appended once per enumeration
\* that holds its id.
RECURSIVE CollectOne_NoBreak(_, _, _, _)
CollectOne_NoBreak(evs, i, enums, k) ==
    IF k > Len(enums) THEN <<>>
    ELSE (IF evs[i].id \in enums[k] THEN <<i>> ELSE <<>>) \o CollectOne_NoBreak(evs, i, enums, k + 1)

\* for enum in enums: if event.id in enum: events.append(event); break
RECURSIVE CollectOne(_, _, _, _)
CollectOne(evs, i, enums, k) ==
    IF k > Len(enums) THEN <<>>
    ELSE IF evs[i].id \in enums[k] THEN <<i>>
    ELSE CollectOne(evs, i, enums, k + 1)

RECURSIVE CollectFrom(_, _, _)
CollectFrom(evs, i, enums) ==
    IF i > Len(evs) THEN <<>>
    ELSE CollectOne(evs, i, enums, 1) \o CollectFrom(evs, i + 1, enums)

_collect_events(evs, enums) == CollectFrom(evs, 1, enums)

\* enums names the enumerations; EnumOf gives their members.
EnumOf(name) ==
    CASE name = "ProjectID" -> ProjectID
      [] name = "ChannelID" -> ChannelID
      [] name = "PluginID" -> PluginID
      [] name = "RackID" -> RackID
      [] name = "MixerID" -> MixerID
      [] name = "InsertID" -> InsertID
      [] name = "SlotID" -> SlotID
      [] name = "PatternsID" -> PatternsID
      [] name = "PatternID" -> PatternID
      [] name = "DisplayGroupID" -> DisplayGroupID

EnumsOf(names) == [k \in 1..Len(names) |-> EnumOf(names[k])]

CollectEvents(names) ==
    /\ last' = Record("_collect_events", names, "none", <<_collect_events(events, EnumsOf(names))>>)
    /\ UNCHANGED <<events, ppq>>

GetMixer ==
    /\ last' = Record("mixer", <<"MixerID", "InsertID", "SlotID">>, "none",
                      <<_collect_events(events, <<MixerID, InsertID, SlotID>>)>>)
    /\ UNCHANGED <<events, ppq>>

GetPatterns ==
    /\ last' = Record("patterns", <<"PatternsID", "PatternID">>, "none",
                      <<_collect_events(events, <<PatternsID, PatternID>>)>>)
    /\ UNCHANGED <<events, ppq>>

(***************************************************************************)
(* Project.channels                                                        *)
(***************************************************************************)
ChannelsEnumNames == <<"ChannelID", "DisplayGroupID", "PluginID", "RackID">>

\* The loop over the event tuple from position i on, acc being the events
\* collected so far.  The tuple of enumerations is built for every event
\* that is not InsertID.Flags.
RECURSIVE ChannelsFrom(_, _, _)
ChannelsFrom(evs, i, acc) ==
    IF i > Len(evs) THEN [err |-> "none", ret |-> <<acc>>]
    ELSE IF evs[i].id = "Insert.Flags" THEN [err |-> "none", ret |-> <<acc>>]
    ELSE IF \E k \in 1..Len(ChannelsEnumNames) : ChannelsEnumNames[k] \notin ImportedNames
        THEN [err |-> "NameError", ret |-> <<>>]
    ELSE ChannelsFrom(evs, i + 1, acc \o CollectOne(evs, i, EnumsOf(ChannelsEnumNames), 1))

channels(evs) == ChannelsFrom(evs, 1, <<>>)

GetChannels ==
    /\ last' = LET r == channels(events) IN Record("channels", <<>>, r.err, r.ret)
    /\ UNCHANGED <<events, ppq>>

(***************************************************************************)
(* Licensee inputs and specification.                                      *)
(***************************************************************************)
\* Names: ASCII alphanumerics on both sides of every threshold of the
\* cipher ('0' '9' 'A' 'Z' 'a' 'e' 'f' 'z').
NameChars == {48, 57, 65, 90, 97, 101, 102, 122}

Names == SeqsUpTo(NameChars, MaxNameLen)

\* Stored strings as found in a file: any text, including non-ASCII.
StoredChars == {0, 25, 53, 74, 100, 127, 255, 304}

StoredStrings == SeqsUpTo(StoredChars, MaxStoredLen)

InitLicensee ==
    /\ \E s \in StoredStrings : events = <<Ev("Licensee", s)>>
    /\ ppq = 96
    /\ last = Record("init", <<>>, "none", <<>>)

NextLicensee ==
    \/ \E n \in Names : SetLicensee(n)
    \/ GetLicensee

SpecLicensee == InitLicensee /\ [][NextLicensee]_vars

(***************************************************************************)
(* PPQ inputs and specification.                                           *)
(***************************************************************************)
PPQInputs == VALID_PPQS \cup {v + 1 : v \in VALID_PPQS} \cup {0, 100}

InitPPQ ==
    /\ events = <<>>
    /\ ppq \in VALID_PPQS \cup {0, 100}
    /\ last = Record("init", <<>>, "none", <<>>)

NextPPQ ==
    \/ \E v \in PPQInputs : SetPPQ(v)
    \/ GetPPQ

SpecPPQ == InitPPQ /\ [][NextPPQ]_vars

(***************************************************************************)
(* Tempo inputs and specification.                                         *)
(***************************************************************************)
\* The events of the tuple at the positions where keep holds.
Keep(evs, present) == SelectSeq(evs, LAMBDA e : e.id \in present)

\* 0, 0.0006, 0.5, 120.0005, 128.5, 140, 140.5, 140.9996 BPM
TempoInputs == {0, 6, 5000, 1200005, 1285000, 1400000, 1405000, 1409996}

TempoEvents == <<Ev("_TempoCoarse", 140), Ev("_TempoFine", 500), Ev("Tempo", 140000)>>

InitTempo ==
    /\ \E present \in SUBSET {"Tempo", "_TempoCoarse", "_TempoFine"} :
           events = Keep(TempoEvents, present)
    /\ ppq = 96
    /\ last = Record("init", <<>>, "none", <<>>)

NextTempo ==
    \/ \E v \in TempoInputs : SetTempo(v)
    \/ GetTempo

SpecTempo == InitTempo /\ [][NextTempo]_vars

(***************************************************************************)
(* Version inputs and specification.                                       *)
(***************************************************************************)
MaxParts == 5

\* The leading components of the tuples tried; further components are 0.
VersionBases == {<<20, 8, 3, 2567>>, <<12, 0, 1, 99>>, <<9, 10, 11, 0>>}

VersionTuples ==
    {[i \in 1..n |-> IF i <= Len(b) THEN b[i] ELSE 0] : b \in VersionBases, n \in 0..MaxParts}

\* "", "8." and "8.x": not dot-joined integers
MalformedTexts == {<<>>, <<56, 46>>, <<56, 46, 120>>}

VersionInputs ==
    {[kind |-> "tuple", parts |-> t] : t \in VersionTuples}
    \cup {[kind |-> "str", text |-> Join(t)] : t \in VersionTuples \ {<<>>}}
    \cup {[kind |-> "str", text |-> s] : s \in MalformedTexts}
    \cup {[kind |-> "FLVersion", parts |-> t] : t \in {<<21, 0, 3>>, <<21, 0, 3, 3329>>}}

\* "20.7.2.1852"
VersionTexts == {<<50, 48, 46, 55, 46, 50, 46, 49, 56, 53, 50>>}

InitVersion ==
    /\ \E present \in SUBSET {"FLVersion", "FLBuild"} : \E text \in VersionTexts :
           events = Keep(<<Ev("Tempo", 140000), Ev("FLBuild", 1852), Ev("FLVersion", text)>>,
                         present \cup {"Tempo"})
    /\ ppq = 96
    /\ last = Record("init", <<>>, "none", <<>>)

NextVersion ==
    \/ \E v \in VersionInputs : SetVersion(v)
    \/ GetVersion

SpecVersion == InitVersion /\ [][NextVersion]_vars

(***************************************************************************)
(* View inputs and specification.                                          *)
(***************************************************************************)
ViewEvents == {Ev("Channel.New", 0), Ev("Insert.Flags", 0), Ev("Mixer.Params", 0),
               Ev("Pattern.New", 0), Ev("Tempo", 140000)}

ViewEnumNames == {"ProjectID", "MixerID", "InsertID"}

InitViews ==
    /\ events \in SeqsUpTo(ViewEvents, MaxEvents)
    /\ ppq = 96
    /\ last = Record("init", <<>>, "none", <<>>)

NextViews ==
    \/ \E names \in SeqsUpTo(ViewEnumNames, MaxEnums) : CollectEvents(names)
    \/ GetMixer
    \/ GetPatterns
    \/ GetChannels
    \/ SetTempo(1405000)

SpecViews == InitViews /\ [][NextViews]_vars

(***************************************************************************)
(* The event-backed properties of a project that holds any subset of       *)
(* their backing events.                                                   *)
(***************************************************************************)
\* "20.7.2.1852", the stored form of licensee "Bob", data path "C:"
ProjectEvents == <<Ev("FLVersion", <<50, 48, 46, 55, 46, 50, 46, 49, 56, 53, 50>>),
                   Ev("FLBuild", 1852),
                   Ev("Licensee", <<92, 61, 122>>),
                   Ev("DataPath", <<67, 58>>),
                   Ev("_TempoCoarse", 140), Ev("_TempoFine", 500), Ev("Tempo", 140000)>>

BackingIds == {"FLVersion", "FLBuild", "Licensee", "DataPath", "_TempoCoarse", "_TempoFine", "Tempo"}

Init ==
    /\ \E present \in SUBSET BackingIds : events = Keep(ProjectEvents, present)
    /\ ppq = 96
    /\ last = Record("init", <<>>, "none", <<>>)

Next ==
    \/ SetTempo(1205000)
    \/ GetTempo
    \/ \E t \in {<<20, 8, 3, 2567>>, <<20, 8>>} : SetVersion([kind |-> "tuple", parts |-> t])
    \/ GetVersion
    \/ SetLicensee(<<65, 102>>)
    \/ GetLicensee
    \/ \E p \in {<<46>>, <<68, 58>>} : SetDataPath(p)
    \/ GetDataPath

Spec == Init /\ [][Next]_vars

(***************************************************************************)
(* Properties.                                                             *)
(***************************************************************************)

\* C1: Licensee cipher round-trip.  When a name N of ASCII alphanumerics has
\* been assigned to Project.licensee (Licensee event present) and
\* Project.licensee is read next, the read returns exactly N.
C1_LicenseeRoundTrip ==
    [][(/\ last.op = "set_licensee"
        /\ last.err = "none"
        /\ \A k \in 1..Len(last.arg) : IsAsciiAlnum(last.arg[k])
        /\ last'.op = "get_licensee")
       => (last'.err = "none" /\ last'.ret = <<last.arg>>)]_vars

\* The sum of the legacy components present in evs, in BPM.
LegacySum(evs) ==
    Frac((IF Has(evs, "_TempoCoarse") THEN ValueOf(evs, "_TempoCoarse") * 1000 ELSE 0)
         + (IF Has(evs, "_TempoFine") THEN ValueOf(evs, "_TempoFine") ELSE 0), 1000)

\* C2: Tempo read.  With the Tempo event absent and at least one of
\* _TempoCoarse, _TempoFine present, reading Project.tempo does not fail and
\* returns the sum of the components present (coarse + fine / 1000); with only
\* Tempo = 140000 it returns 140.0, with only coarse 140 and fine 500, 140.5.
C2_TempoRead ==
    last.op = "get_tempo" =>
        /\ (~Has(events, "Tempo") /\ (Has(events, "_TempoCoarse") \/ Has(events, "_TempoFine")))
               => (/\ last.err = "none"
                   /\ last.ret # <<>>
                   /\ FracEq(last.ret[1], LegacySum(events)))
        /\ events = <<Ev("Tempo", 140000)>>
               => (last.err = "none" /\ last.ret # <<>> /\ FracEq(last.ret[1], Frac(140, 1)))
        /\ events = <<Ev("_TempoCoarse", 140), Ev("_TempoFine", 500)>>
               => (last.err = "none" /\ last.ret # <<>> /\ FracEq(last.ret[1], Frac(1405, 10)))

\* round(v * 1000) for v in 1/10000: the nearest integer, a tie going to
\* the even neighbour.
RoundOfTimes1000(v) ==
    LET q == v \div 10
        r == v % 10
    IN  IF r > 5 \/ (r = 5 /\ q % 2 = 1) THEN q + 1 ELSE q

\* C3: Tempo write.  After Project.tempo = v (v >= 0) a present Tempo event
\* holds round(v * 1000), a present _TempoCoarse event holds floor(v) and a
\* present _TempoFine event holds the fractional part of v scaled by 1000.
C3_TempoWrite ==
    last.op = "set_tempo" =>
        /\ Has(events, "Tempo") => ValueOf(events, "Tempo") = RoundOfTimes1000(last.arg)
        /\ Has(events, "_TempoCoarse") => ValueOf(events, "_TempoCoarse") = last.arg \div 10000
        /\ Has(events, "_TempoFine") => ValueOf(events, "_TempoFine") = (last.arg % 10000) \div 10

\* The events that back a settable property.
BackingOf(op) ==
    CASE op = "set_tempo" -> {"Tempo", "_TempoCoarse", "_TempoFine"}
      [] op = "set_version" -> {"FLVersion"}
      [] op = "set_licensee" -> {"Licensee"}
      [] op = "set_data_path" -> {"DataPath"}
      [] OTHER -> {}

\* C4: Assigning tempo, version, licensee or data_path while none of the
\* property's backing events is in the event tuple fails with
\* PropertyCannotBeSet and changes no event.
C4_AbsentBacking ==
    [][(/\ last'.op \in {"set_tempo", "set_version", "set_licensee", "set_data_path"}
        /\ \A id \in BackingOf(last'.op) : ~Has(events, id))
       => (last'.err = "PropertyCannotBeSet" /\ events' = events)]_vars

\* The elements of a finite set of integers in increasing order.
RECURSIVE Ascending(_)
Ascending(S) ==
    IF S = {} THEN <<>>
    ELSE LET m == CHOOSE x \in S : \A y \in S : x <= y
         IN  <<m>> \o Ascending(S \ {m})

\* The position of the first InsertID.Flags event, or one past the end.
Boundary(evs) ==
    IF Has(evs, "Insert.Flags") THEN First(evs, "Insert.Flags") ELSE Len(evs) + 1

\* C5: Channel-rack boundary.  Project.channels completes and passes to Rack
\* exactly the events located before the first InsertID.Flags event whose id
\* is in ChannelID, DisplayGroupID, PluginID or RackID, in their original
\* order.
C5_ChannelRackBoundary ==
    last.op = "channels" =>
        /\ last.err = "none"
        /\ last.ret = <<Ascending({i \in 1..(Boundary(events) - 1) :
                            events[i].id \in ChannelID \cup DisplayGroupID \cup PluginID \cup RackID})>>

AllowedPPQ == {24, 48, 72, 96, 120, 144, 168, 192, 384, 768, 960}

\* C6: PPQ domain.  Assigning a value outside the allowed set fails with
\* ExpectedValue and leaves ppq as it was; assigning a value of the set
\* succeeds and a read that follows returns it; ppq never leaves the set.
C6_PPQDomain ==
    [][/\ (last'.op = "set_ppq" /\ last'.arg \notin AllowedPPQ)
              => (last'.err = "ExpectedValue" /\ ppq' = ppq)
       /\ (last'.op = "set_ppq" /\ last'.arg \in AllowedPPQ)
              => (last'.err = "none" /\ ppq' = last'.arg)
       /\ (last.op = "set_ppq" /\ last.err = "none" /\ last'.op = "get_ppq")
              => last'.ret = <<last.arg>>
       /\ ppq \in AllowedPPQ => ppq' \in AllowedPPQ]_vars

\* ppq = 100 was refused and ppq is still 96.
C6_Witness ==
    /\ last.op = "set_ppq"
    /\ last.arg = 100
    /\ last.err = "ExpectedValue"
    /\ ppq = 96

\* The tuple of integers whose dot-joined decimal text a string is.
JoinedComponents ==
    [text \in {Join(t) : t \in VersionTuples \ {<<>>}} |->
        CHOOSE t \in VersionTuples : t # <<>> /\ Join(t) = text]

\* The integer components a version argument stands for: those of the tuple
\* or FLVersion, or those whose dot-joined decimal text the string is.
ComponentsOf(value) ==
    IF value.kind = "str"
        THEN IF value.text \in DOMAIN JoinedComponents
                 THEN <<JoinedComponents[value.text]>>
                 ELSE <<>>
        ELSE <<value.parts>>

HasComponents(value, counts) ==
    ComponentsOf(value) # <<>> /\ Len(ComponentsOf(value)[1]) \in counts

\* C7: Version write with four components.  With FLVersion present, the
\* assignment succeeds, FLVersion holds the four integers joined by dots, a
\* present FLBuild holds the fourth, and a read that follows returns the four
\* components.
C7_VersionWrite4 ==
    [][/\ (last'.op = "set_version" /\ Has(events, "FLVersion") /\ HasComponents(last'.arg, {4}))
              => LET parts == ComponentsOf(last'.arg)[1]
                 IN  /\ last'.err = "none"
                     /\ ValueOf(events', "FLVersion")
                            = IntToStr(parts[1]) \o <<46>> \o IntToStr(parts[2]) \o <<46>>
                              \o IntToStr(parts[3]) \o <<46>> \o IntToStr(parts[4])
                     /\ parts = <<20, 8, 3, 2567>>
                            => ValueOf(events', "FLVersion")
                                   = <<50, 48, 46, 56, 46, 51, 46, 50, 53, 54, 55>>
                     /\ Has(events, "FLBuild") => ValueOf(events', "FLBuild") = parts[4]
       /\ (/\ last.op = "set_version" /\ last.err = "none" /\ HasComponents(last.arg, {4})
           /\ last'.op = "get_version")
              => (last'.err = "none" /\ last'.ret = ComponentsOf(last.arg))]_vars

\* "20.8.3.2567" was assigned and read back, and FLBuild became 2567.
C7_Witness ==
    /\ last.op = "get_version"
    /\ last.ret = << <<20, 8, 3, 2567>> >>
    /\ Has(events, "FLBuild")
    /\ ValueOf(events, "FLBuild") = 2567
    /\ ValueOf(events, "FLVersion") = <<50, 48, 46, 56, 46, 51, 46, 50, 53, 54, 55>>

RECURSIVE AlnumDecodeFrom(_, _)
AlnumDecodeFrom(s, i) ==
    IF i > Len(s) THEN <<>>
    ELSE LET c1 == s[i] - 26 + (i - 1)
             c2 == s[i] + 49 + (i - 1)
         IN  (IF IsAsciiAlnum(c1) THEN <<c1>> ELSE IF IsAsciiAlnum(c2) THEN <<c2>> ELSE <<>>)
             \o AlnumDecodeFrom(s, i + 1)

\* C9: Licensee decoding output domain.  Reading Project.licensee with any
\* stored string completes and returns only ASCII alphanumerics: per position
\* the first of the two candidates that is one, nothing when neither is.
C9_LicenseeDecodeDomain ==
    (last.op = "get_licensee" /\ Has(events, "Licensee")) =>
        /\ last.err = "none"
        /\ last.ret = <<AlnumDecodeFrom(ValueOf(events, "Licensee"), 1)>>

\* The ids of the enumerations named.
IdsOf(names) == UNION {EnumOf(names[k]) : k \in 1..Len(names)}

\* C10: Grouped lookup.  _collect_events (and the mixer and patterns views
\* built from it) returns references to exactly the project's events whose id
\* is in one of the enumerations, each once, in the original order; read
\* through the references, the events show their current values.
C10_GroupedLookup ==
    last.op \in {"_collect_events", "mixer", "patterns"} =>
        LET refs == last.ret[1]
            inGroup(e) == e.id \in IdsOf(last.arg)
        IN  /\ refs = Ascending({i \in 1..Len(events) : inGroup(events[i])})
            /\ [k \in 1..Len(refs) |-> events[refs[k]]] = SelectSeq(events, inGroup)

\* An event whose id is in both enumerations given was collected once, after
\* its value had been changed through Project.tempo, and another was left out.
C10_Witness ==
    /\ last.op = "_collect_events"
    /\ last.arg = <<"ProjectID", "ProjectID">>
    /\ Len(events) = 3
    /\ last.ret = << <<2>> >>
    /\ events[2] = Ev("Tempo", 140500)

====
